---- MODULE Spec2Model ----
(***************************************************************************)
(* Record gateway of the patient-management application: typed wrappers    *)
(* around a hosted database (patients, medical_history, appointments,      *)
(* patient_files) and one object-storage bucket (patient-files).           *)
(*                                                                         *)
(* Every exported function is an async function.  Every awaited remote     *)
(* call is one step, in which the backend applies the request and the      *)
(* function continues up to its next await or its return.  A function      *)
(* whose synchronous prefix reads the clock (new Date(), Date.now()) is    *)
(* invoked in a step of its own, since the value read is older than the    *)
(* request's arrival; the others are invoked in the step of their first    *)
(* call.  Several invocations may be in flight at once and their steps     *)
(* interleave.  Every remote call may fail (error returned, backend state  *)
(* unchanged).                                                             *)
(***************************************************************************)
EXTENDS Integers, Sequences, FiniteSets, TLC

\* ---- bounds of the model -------------------------------------------------
MaxCalls == 3        \* gateway invocations in one behaviour
MaxClock == 1        \* largest value the millisecond clock reaches

Clients == {1, 2}    \* concurrently awaited invocations
Workers == {1, 2, 3} \* the same, for the composite operations alone
FileNames == {"a"}   \* file.name of uploaded files
NoInt == -1          \* "field absent" in a partial update
NoStr == "none"

VARIABLES
    patients,      \* table patients: id -> row (DOMAIN = rows that exist)
    nPatients,     \* ids handed out so far by the backend for patients
    history,       \* table medical_history: set of rows
    nHistory,
    appointments,  \* table appointments: id -> row
    nAppointments,
    files,         \* table patient_files: id -> row
    nFiles,
    bucket,        \* storage bucket patient-files: set of object keys
    now,           \* the clock read by new Date() / Date.now()
    op,            \* per client: the invocation in flight
    started,       \* invocations made so far
    derived,       \* patients created with treatments = 0 and never written by updatePatient
    incFailed,     \* patients for which an increment call failed after its insert
    uploaded       \* object keys whose storage upload succeeded

vars == <<patients, nPatients, history, nHistory, appointments, nAppointments,
          files, nFiles, bucket, now, op, started, derived, incFailed, uploaded>>

dbPatients == <<patients, nPatients>>
dbHistory == <<history, nHistory>>
dbAppointments == <<appointments, nAppointments>>
dbFiles == <<files, nFiles>>
ghosts == <<derived, incFailed, uploaded>>

\* ---- values ----------------------------------------------------------------
NoUpdates == [status |-> NoStr, treatments |-> NoInt, updated_at |-> NoInt]
NoPath == <<0, 0, NoStr>>
Null == [kind |-> "null"]
Row(r) == [kind |-> "row", row |-> r]
Bool(b) == [kind |-> "bool", val |-> b]
List(s) == [kind |-> "list", rows |-> s]
Url(p) == [kind |-> "url", path |-> p]

Idle == [fn |-> "none", pc |-> "idle", id |-> 0, upd |-> NoUpdates, stamp |-> NoInt,
         path |-> NoPath, calls |-> <<>>, ret |-> Null]

\* one remote call as seen by the function: which call, whether the backend
\* answered without error, and whether console.error ran on its result
Call(name, ok, logged) == [call |-> name, ok |-> ok, logged |-> logged]

\* the partial field sets a caller passes to an update
PatientUpdates ==
    { [NoUpdates EXCEPT !.status = "Alta"],
      [NoUpdates EXCEPT !.treatments = 2],
      [NoUpdates EXCEPT !.status = "Alta", !.updated_at = 0] }
AppointmentUpdates ==
    { [NoUpdates EXCEPT !.status = "cancelada"],
      [NoUpdates EXCEPT !.status = "cancelada", !.updated_at = 0] }

\* the spread written the other way round, { updated_at: ..., ...updates }:
\* a caller-supplied updated_at survives
Merge_callerWins(row, upd, stamp) ==
    [f \in DOMAIN row |->
        IF f = "updated_at" THEN (IF upd.updated_at # NoInt THEN upd.updated_at ELSE stamp)
        ELSE IF f = "status" /\ upd.status # NoStr THEN upd.status
        ELSE IF f = "treatments" /\ upd.treatments # NoInt THEN upd.treatments
        ELSE row[f]]

\* { ...updates, updated_at: new Date().toISOString() } applied to a row
Merge(row, upd, stamp) ==
    [f \in DOMAIN row |->
        IF f = "updated_at" THEN stamp
        ELSE IF f = "status" /\ upd.status # NoStr THEN upd.status
        ELSE IF f = "treatments" /\ upd.treatments # NoInt THEN upd.treatments
        ELSE row[f]]

Init ==
    /\ patients = <<>>
    /\ nPatients = 0
    /\ history = {}
    /\ nHistory = 0
    /\ appointments = <<>>
    /\ nAppointments = 0
    /\ files = <<>>
    /\ nFiles = 0
    /\ bucket = {}
    /\ now = 0
    /\ op = [c \in Workers |-> Idle]
    /\ started = 0
    /\ derived = {}
    /\ incFailed = {}
    /\ uploaded = {}

\* ---- invocation and return -------------------------------------------------
\* A returned result reaches the awaiting caller before the response of any
\* other request is handled, so nothing else happens while a result is pending.
NoResultPending == \A d \in Workers : op[d].pc # "done"

\* slots are interchangeable: an invocation takes the lowest free one
Free(c) == op[c].pc = "idle" /\ \A d \in Workers : d < c => op[d].pc # "idle"

\* invocation of a function that reads the clock before its first remote call
Begin(c, fn, pc, id, upd, stamp, path) ==
    /\ Free(c) /\ NoResultPending
    /\ started < MaxCalls
    /\ started' = started + 1
    /\ op' = [op EXCEPT ![c] = [fn |-> fn, pc |-> pc, id |-> id, upd |-> upd,
                                stamp |-> stamp, path |-> path, calls |-> <<>>,
                                ret |-> Null]]

\* invocation of a function together with its first remote call
Start(c, fn, id, upd, path, call, pc, ret) ==
    /\ Free(c) /\ NoResultPending
    /\ started < MaxCalls
    /\ started' = started + 1
    /\ op' = [op EXCEPT ![c] = [fn |-> fn, pc |-> pc, id |-> id, upd |-> upd,
                                stamp |-> NoInt, path |-> path, calls |-> <<call>>,
                                ret |-> ret]]

Whole(c, fn, id, upd, path, call, ret) == Start(c, fn, id, upd, path, call, "done", ret)

\* the function's continuation after a remote call: record the call, move to
\* the next await or return
Step(c, call, pc, ret) ==
    /\ NoResultPending
    /\ op' = [op EXCEPT ![c].calls = Append(@, call), ![c].pc = pc, ![c].ret = ret]

Finish(c, call, ret) == Step(c, call, "done", ret)

\* the caller has received the result
Return(c) ==
    /\ op[c].pc = "done"
    /\ op' = [op EXCEPT ![c] = Idle]
    /\ UNCHANGED <<dbPatients, dbHistory, dbAppointments, dbFiles, bucket, now,
                   started, ghosts>>

Tick ==
    /\ NoResultPending
    /\ now < MaxClock
    /\ now' = now + 1
    /\ UNCHANGED <<dbPatients, dbHistory, dbAppointments, dbFiles, bucket, op,
                   started, ghosts>>

KnownPatients == 1..nPatients
KnownAppointments == 1..nAppointments
KnownFiles == 1..nFiles

Remove(table, id) == [i \in DOMAIN table \ {id} |-> table[i]]
Insert(table, id, row) == [i \in DOMAIN table \cup {id} |-> IF i = id THEN row ELSE table[i]]

\* ---- patients ----------------------------------------------------------------
getPatients(c) ==
    /\ \E ok \in BOOLEAN :
         IF ok THEN Whole(c, "getPatients", 0, NoUpdates, NoPath,
                          Call("patients.select", TRUE, FALSE), List(DOMAIN patients))
         ELSE Whole(c, "getPatients", 0, NoUpdates, NoPath,
                    Call("patients.select", FALSE, TRUE), List({}))
    /\ UNCHANGED <<dbPatients, dbHistory, dbAppointments, dbFiles, bucket, now, ghosts>>

\* .single(): no row is an error
getPatientById(c) ==
    /\ \E id \in KnownPatients, ok \in BOOLEAN :
         IF ok /\ id \in DOMAIN patients
         THEN Whole(c, "getPatientById", id, NoUpdates, NoPath,
                    Call("patients.select", TRUE, FALSE), Row(patients[id]))
         ELSE Whole(c, "getPatientById", id, NoUpdates, NoPath,
                    Call("patients.select", FALSE, TRUE), Null)
    /\ UNCHANGED <<dbPatients, dbHistory, dbAppointments, dbFiles, bucket, now, ghosts>>

createPatient(c) ==
    /\ \E t \in {0, 1}, ok \in BOOLEAN :
         LET upd == [NoUpdates EXCEPT !.treatments = t] IN
         IF ok
         THEN LET id == nPatients + 1
                  row == [treatments |-> t, status |-> "Activo", updated_at |-> now]
              IN /\ patients' = Insert(patients, id, row)
                 /\ nPatients' = id
                 /\ derived' = IF t = 0 THEN derived \cup {id} ELSE derived
                 /\ Whole(c, "createPatient", 0, upd, NoPath,
                          Call("patients.insert", TRUE, FALSE), Row(row))
         ELSE /\ UNCHANGED <<dbPatients, derived>>
              /\ Whole(c, "createPatient", 0, upd, NoPath,
                       Call("patients.insert", FALSE, TRUE), Null)
    /\ UNCHANGED <<dbHistory, dbAppointments, dbFiles, bucket, now, incFailed, uploaded>>

\* the update object, new Date() included, is built before the request is sent
updatePatient(c) ==
    /\ \E id \in KnownPatients, upd \in PatientUpdates :
         Begin(c, "updatePatient", "update", id, upd, now, NoPath)
    /\ UNCHANGED <<dbPatients, dbHistory, dbAppointments, dbFiles, bucket, now, ghosts>>

updatePatient_update(c) ==
    /\ op[c].fn = "updatePatient" /\ op[c].pc = "update"
    /\ \E ok \in BOOLEAN :
         IF ok /\ op[c].id \in DOMAIN patients
         THEN LET row == Merge(patients[op[c].id], op[c].upd, op[c].stamp)
              IN /\ patients' = [patients EXCEPT ![op[c].id] = row]
                 /\ derived' = IF op[c].upd.treatments # NoInt
                               THEN derived \ {op[c].id} ELSE derived
                 /\ Finish(c, Call("patients.update", TRUE, FALSE), Row(row))
         ELSE /\ UNCHANGED <<patients, derived>>
              /\ Finish(c, Call("patients.update", FALSE, TRUE), Null)
    /\ UNCHANGED <<nPatients, dbHistory, dbAppointments, dbFiles, bucket, now,
                   started, incFailed, uploaded>>

\* deletePatient that also clears the patient's blobs out of the bucket
deletePatient_cascade(c) ==
    /\ \E id \in KnownPatients, ok \in BOOLEAN :
         IF ok
         THEN /\ patients' = Remove(patients, id)
              /\ bucket' = bucket \ {files[f].storage_path :
                                       f \in {g \in DOMAIN files : files[g].patient_id = id}}
              /\ Whole(c, "deletePatient", id, NoUpdates, NoPath,
                       Call("patients.delete", TRUE, FALSE), Bool(TRUE))
         ELSE /\ UNCHANGED <<patients, bucket>>
              /\ Whole(c, "deletePatient", id, NoUpdates, NoPath,
                       Call("patients.delete", FALSE, TRUE), Bool(FALSE))
    /\ UNCHANGED <<nPatients, dbHistory, dbAppointments, dbFiles, now, ghosts>>

deletePatient(c) ==
    /\ \E id \in KnownPatients, ok \in BOOLEAN :
         IF ok
         THEN /\ patients' = Remove(patients, id)
              /\ Whole(c, "deletePatient", id, NoUpdates, NoPath,
                       Call("patients.delete", TRUE, FALSE), Bool(TRUE))
         ELSE /\ UNCHANGED patients
              /\ Whole(c, "deletePatient", id, NoUpdates, NoPath,
                       Call("patients.delete", FALSE, TRUE), Bool(FALSE))
    /\ UNCHANGED <<nPatients, dbHistory, dbAppointments, dbFiles, bucket, now, ghosts>>

\* ---- medical history -------------------------------------------------------
HistoryOf(p) == {h \in history : h.patient_id = p}

\* the remote procedure increment_patient_treatments(patient_id): bumps the
\* counter of that patient by one inside the backend
increment_patient_treatments(table, p) ==
    IF p \in DOMAIN table
    THEN [table EXCEPT ![p].treatments = @ + 1]
    ELSE table

getMedicalHistory(c) ==
    /\ \E id \in KnownPatients, ok \in BOOLEAN :
         IF ok THEN Whole(c, "getMedicalHistory", id, NoUpdates, NoPath,
                          Call("medical_history.select", TRUE, FALSE),
                          List({h.id : h \in HistoryOf(id)}))
         ELSE Whole(c, "getMedicalHistory", id, NoUpdates, NoPath,
                    Call("medical_history.select", FALSE, TRUE), List({}))
    /\ UNCHANGED <<dbPatients, dbHistory, dbAppointments, dbFiles, bucket, now, ghosts>>

\* addMedicalHistory without the early return: the increment is issued after a
\* failed insert too
addMedicalHistory_unchecked(c) ==
    /\ \E id \in KnownPatients, ok \in BOOLEAN :
         IF ok
         THEN LET row == [id |-> nHistory + 1, patient_id |-> id]
              IN /\ history' = history \cup {row}
                 /\ nHistory' = nHistory + 1
                 /\ Start(c, "addMedicalHistory", id, NoUpdates, NoPath,
                          Call("medical_history.insert", TRUE, FALSE), "rpc", Row(row))
         ELSE /\ UNCHANGED dbHistory
              /\ Start(c, "addMedicalHistory", id, NoUpdates, NoPath,
                       Call("medical_history.insert", FALSE, TRUE), "rpc", Null)
    /\ UNCHANGED <<dbPatients, dbAppointments, dbFiles, bucket, now, ghosts>>

\* addMedicalHistory without the increment: the inserted row is returned at once
addMedicalHistory_only(c) ==
    /\ \E id \in KnownPatients, ok \in BOOLEAN :
         IF ok
         THEN LET row == [id |-> nHistory + 1, patient_id |-> id]
              IN /\ history' = history \cup {row}
                 /\ nHistory' = nHistory + 1
                 /\ Whole(c, "addMedicalHistory", id, NoUpdates, NoPath,
                          Call("medical_history.insert", TRUE, FALSE), Row(row))
         ELSE /\ UNCHANGED dbHistory
              /\ Whole(c, "addMedicalHistory", id, NoUpdates, NoPath,
                       Call("medical_history.insert", FALSE, TRUE), Null)
    /\ UNCHANGED <<dbPatients, dbAppointments, dbFiles, bucket, now, ghosts>>

addMedicalHistory(c) ==
    /\ \E id \in KnownPatients, ok \in BOOLEAN :
         IF ok
         THEN LET row == [id |-> nHistory + 1, patient_id |-> id]
              IN /\ history' = history \cup {row}
                 /\ nHistory' = nHistory + 1
                 /\ Start(c, "addMedicalHistory", id, NoUpdates, NoPath,
                          Call("medical_history.insert", TRUE, FALSE), "rpc", Row(row))
         ELSE /\ UNCHANGED dbHistory
              /\ Whole(c, "addMedicalHistory", id, NoUpdates, NoPath,
                       Call("medical_history.insert", FALSE, TRUE), Null)
    /\ UNCHANGED <<dbPatients, dbAppointments, dbFiles, bucket, now, ghosts>>

\* addMedicalHistory that treats a failed increment like a failed insert
addMedicalHistory_rpc_checked(c) ==
    /\ op[c].fn = "addMedicalHistory" /\ op[c].pc = "rpc"
    /\ \E ok \in BOOLEAN :
         IF ok
         THEN /\ patients' = increment_patient_treatments(patients, op[c].id)
              /\ UNCHANGED incFailed
              /\ Finish(c, Call("rpc.increment_patient_treatments", TRUE, FALSE), op[c].ret)
         ELSE /\ UNCHANGED patients
              /\ incFailed' = incFailed \cup {op[c].id}
              /\ Finish(c, Call("rpc.increment_patient_treatments", FALSE, TRUE), Null)
    /\ UNCHANGED <<nPatients, dbHistory, dbAppointments, dbFiles, bucket, now,
                   started, derived, uploaded>>

\* the result of the rpc is not read
addMedicalHistory_rpc(c) ==
    /\ op[c].fn = "addMedicalHistory" /\ op[c].pc = "rpc"
    /\ \E ok \in BOOLEAN :
         IF ok
         THEN /\ patients' = increment_patient_treatments(patients, op[c].id)
              /\ UNCHANGED incFailed
              /\ Finish(c, Call("rpc.increment_patient_treatments", TRUE, FALSE), op[c].ret)
         ELSE /\ UNCHANGED patients
              /\ incFailed' = incFailed \cup {op[c].id}
              /\ Finish(c, Call("rpc.increment_patient_treatments", FALSE, FALSE), op[c].ret)
    /\ UNCHANGED <<nPatients, dbHistory, dbAppointments, dbFiles, bucket, now,
                   started, derived, uploaded>>

\* ---- appointments ----------------------------------------------------------
\* select *, patients!inner(name): only appointments whose patient row exists
getAppointments(c) ==
    /\ \E ok \in BOOLEAN :
         IF ok THEN Whole(c, "getAppointments", 0, NoUpdates, NoPath,
                          Call("appointments.select", TRUE, FALSE),
                          List({a \in DOMAIN appointments :
                                  appointments[a].patient_id \in DOMAIN patients}))
         ELSE Whole(c, "getAppointments", 0, NoUpdates, NoPath,
                    Call("appointments.select", FALSE, TRUE), List({}))
    /\ UNCHANGED <<dbPatients, dbHistory, dbAppointments, dbFiles, bucket, now, ghosts>>

createAppointment(c) ==
    /\ \E p \in KnownPatients, ok \in BOOLEAN :
         IF ok
         THEN LET id == nAppointments + 1
                  row == [patient_id |-> p, status |-> "pendiente", updated_at |-> now]
              IN /\ appointments' = Insert(appointments, id, row)
                 /\ nAppointments' = id
                 /\ Whole(c, "createAppointment", p, NoUpdates, NoPath,
                          Call("appointments.insert", TRUE, FALSE), Row(row))
         ELSE /\ UNCHANGED dbAppointments
              /\ Whole(c, "createAppointment", p, NoUpdates, NoPath,
                       Call("appointments.insert", FALSE, TRUE), Null)
    /\ UNCHANGED <<dbPatients, dbHistory, dbFiles, bucket, now, ghosts>>

updateAppointment(c) ==
    /\ \E id \in KnownAppointments, upd \in AppointmentUpdates :
         Begin(c, "updateAppointment", "update", id, upd, now, NoPath)
    /\ UNCHANGED <<dbPatients, dbHistory, dbAppointments, dbFiles, bucket, now, ghosts>>

updateAppointment_update(c) ==
    /\ op[c].fn = "updateAppointment" /\ op[c].pc = "update"
    /\ \E ok \in BOOLEAN :
         IF ok /\ op[c].id \in DOMAIN appointments
         THEN LET row == Merge(appointments[op[c].id], op[c].upd, op[c].stamp)
              IN /\ appointments' = [appointments EXCEPT ![op[c].id] = row]
                 /\ Finish(c, Call("appointments.update", TRUE, FALSE), Row(row))
         ELSE /\ UNCHANGED appointments
              /\ Finish(c, Call("appointments.update", FALSE, TRUE), Null)
    /\ UNCHANGED <<dbPatients, dbHistory, nAppointments, dbFiles, bucket, now,
                   started, ghosts>>

deleteAppointment(c) ==
    /\ \E id \in KnownAppointments, ok \in BOOLEAN :
         IF ok
         THEN /\ appointments' = Remove(appointments, id)
              /\ Whole(c, "deleteAppointment", id, NoUpdates, NoPath,
                       Call("appointments.delete", TRUE, FALSE), Bool(TRUE))
         ELSE /\ UNCHANGED appointments
              /\ Whole(c, "deleteAppointment", id, NoUpdates, NoPath,
                       Call("appointments.delete", FALSE, TRUE), Bool(FALSE))
    /\ UNCHANGED <<dbPatients, dbHistory, nAppointments, dbFiles, bucket, now, ghosts>>

\* ---- patient files ---------------------------------------------------------
FilesOf(p) == {f \in DOMAIN files : files[f].patient_id = p}
Paths == {files[f].storage_path : f \in DOMAIN files}

getPatientFiles(c) ==
    /\ \E id \in KnownPatients, ok \in BOOLEAN :
         IF ok THEN Whole(c, "getPatientFiles", id, NoUpdates, NoPath,
                          Call("patient_files.select", TRUE, FALSE), List(FilesOf(id)))
         ELSE Whole(c, "getPatientFiles", id, NoUpdates, NoPath,
                    Call("patient_files.select", FALSE, TRUE), List({}))
    /\ UNCHANGED <<dbPatients, dbHistory, dbAppointments, dbFiles, bucket, now, ghosts>>

\* fileName = `${patientId}/${Date.now()}-${file.name}`
uploadPatientFile(c) ==
    /\ \E id \in KnownPatients, name \in FileNames :
         Begin(c, "uploadPatientFile", "upload", id, NoUpdates, NoInt, <<id, now, name>>)
    /\ UNCHANGED <<dbPatients, dbHistory, dbAppointments, dbFiles, bucket, now, ghosts>>

\* uploadPatientFile without the early return on uploadError
uploadPatientFile_upload_unchecked(c) ==
    /\ op[c].fn = "uploadPatientFile" /\ op[c].pc = "upload"
    /\ \E ok \in BOOLEAN :
         IF ok /\ op[c].path \notin bucket
         THEN /\ bucket' = bucket \cup {op[c].path}
              /\ uploaded' = uploaded \cup {op[c].path}
              /\ Step(c, Call("storage.upload", TRUE, FALSE), "insert", Null)
         ELSE /\ UNCHANGED <<bucket, uploaded>>
              /\ Step(c, Call("storage.upload", FALSE, TRUE), "insert", Null)
    /\ UNCHANGED <<dbPatients, dbHistory, dbAppointments, dbFiles, now, started,
                   derived, incFailed>>

\* uploadPatientFile as one backend transaction: blob and metadata row together
uploadPatientFile_upload_atomic(c) ==
    /\ op[c].fn = "uploadPatientFile" /\ op[c].pc = "upload"
    /\ \E ok \in BOOLEAN :
         IF ok /\ op[c].path \notin bucket
         THEN LET id == nFiles + 1
                  row == [patient_id |-> op[c].id, storage_path |-> op[c].path]
              IN /\ bucket' = bucket \cup {op[c].path}
                 /\ uploaded' = uploaded \cup {op[c].path}
                 /\ files' = Insert(files, id, row)
                 /\ nFiles' = id
                 /\ NoResultPending
                 /\ op' = [op EXCEPT ![c].calls = @ \o <<Call("storage.upload", TRUE, FALSE),
                                                        Call("patient_files.insert", TRUE, FALSE)>>,
                                     ![c].pc = "done", ![c].ret = Row(row)]
         ELSE /\ UNCHANGED <<bucket, uploaded, dbFiles>>
              /\ Finish(c, Call("storage.upload", FALSE, TRUE), Null)
    /\ UNCHANGED <<dbPatients, dbHistory, dbAppointments, now, started,
                   derived, incFailed>>

\* storage.upload without upsert: an existing key is refused
uploadPatientFile_upload(c) ==
    /\ op[c].fn = "uploadPatientFile" /\ op[c].pc = "upload"
    /\ \E ok \in BOOLEAN :
         IF ok /\ op[c].path \notin bucket
         THEN /\ bucket' = bucket \cup {op[c].path}
              /\ uploaded' = uploaded \cup {op[c].path}
              /\ Step(c, Call("storage.upload", TRUE, FALSE), "insert", Null)
         ELSE /\ UNCHANGED <<bucket, uploaded>>
              /\ Finish(c, Call("storage.upload", FALSE, TRUE), Null)
    /\ UNCHANGED <<dbPatients, dbHistory, dbAppointments, dbFiles, now, started,
                   derived, incFailed>>

uploadPatientFile_insert(c) ==
    /\ op[c].fn = "uploadPatientFile" /\ op[c].pc = "insert"
    /\ \E ok \in BOOLEAN :
         IF ok
         THEN LET id == nFiles + 1
                  row == [patient_id |-> op[c].id, storage_path |-> op[c].path]
              IN /\ files' = Insert(files, id, row)
                 /\ nFiles' = id
                 /\ Finish(c, Call("patient_files.insert", TRUE, FALSE), Row(row))
         ELSE /\ UNCHANGED dbFiles
              /\ Finish(c, Call("patient_files.insert", FALSE, TRUE), Null)
    /\ UNCHANGED <<dbPatients, dbHistory, dbAppointments, bucket, now, started, ghosts>>

\* deletePatientFile without the early return on fetchError
deletePatientFile_unchecked(c) ==
    /\ \E id \in KnownFiles, ok \in BOOLEAN :
         IF ok /\ id \in DOMAIN files
         THEN Start(c, "deletePatientFile", id, NoUpdates, files[id].storage_path,
                    Call("patient_files.select", TRUE, FALSE), "remove", Null)
         ELSE Start(c, "deletePatientFile", id, NoUpdates, NoPath,
                    Call("patient_files.select", FALSE, TRUE), "remove", Null)
    /\ UNCHANGED <<dbPatients, dbHistory, dbAppointments, dbFiles, bucket, now, ghosts>>

\* select("storage_path").eq("id", fileId).single(): no row is an error
deletePatientFile(c) ==
    /\ \E id \in KnownFiles, ok \in BOOLEAN :
         IF ok /\ id \in DOMAIN files
         THEN Start(c, "deletePatientFile", id, NoUpdates, files[id].storage_path,
                    Call("patient_files.select", TRUE, FALSE), "remove", Null)
         ELSE Whole(c, "deletePatientFile", id, NoUpdates, NoPath,
                    Call("patient_files.select", FALSE, TRUE), Bool(FALSE))
    /\ UNCHANGED <<dbPatients, dbHistory, dbAppointments, dbFiles, bucket, now, ghosts>>

\* deletePatientFile that gives up when the storage removal fails
deletePatientFile_remove_abort(c) ==
    /\ op[c].fn = "deletePatientFile" /\ op[c].pc = "remove"
    /\ \E ok \in BOOLEAN :
         IF ok
         THEN /\ bucket' = bucket \ {op[c].path}
              /\ Step(c, Call("storage.remove", TRUE, FALSE), "delete", Null)
         ELSE /\ UNCHANGED bucket
              /\ Finish(c, Call("storage.remove", FALSE, TRUE), Bool(FALSE))
    /\ UNCHANGED <<dbPatients, dbHistory, dbAppointments, dbFiles, now, started, ghosts>>

deletePatientFile_remove(c) ==
    /\ op[c].fn = "deletePatientFile" /\ op[c].pc = "remove"
    /\ \E ok \in BOOLEAN :
         IF ok
         THEN /\ bucket' = bucket \ {op[c].path}
              /\ Step(c, Call("storage.remove", TRUE, FALSE), "delete", Null)
         ELSE /\ UNCHANGED bucket
              /\ Step(c, Call("storage.remove", FALSE, TRUE), "delete", Null)
    /\ UNCHANGED <<dbPatients, dbHistory, dbAppointments, dbFiles, now, started, ghosts>>

deletePatientFile_delete(c) ==
    /\ op[c].fn = "deletePatientFile" /\ op[c].pc = "delete"
    /\ \E ok \in BOOLEAN :
         IF ok
         THEN /\ files' = Remove(files, op[c].id)
              /\ Finish(c, Call("patient_files.delete", TRUE, FALSE), Bool(TRUE))
         ELSE /\ UNCHANGED files
              /\ Finish(c, Call("patient_files.delete", FALSE, TRUE), Bool(FALSE))
    /\ UNCHANGED <<dbPatients, dbHistory, dbAppointments, nFiles, bucket, now,
                   started, ghosts>>

\* createSignedUrl(storagePath, 3600): only data is read, the error is dropped
getFileUrl(c) ==
    /\ \E path \in Paths \cup bucket, ok \in BOOLEAN :
         IF ok /\ path \in bucket
         THEN Whole(c, "getFileUrl", 0, NoUpdates, path,
                    Call("storage.createSignedUrl", TRUE, FALSE), Url(path))
         ELSE Whole(c, "getFileUrl", 0, NoUpdates, path,
                    Call("storage.createSignedUrl", FALSE, FALSE), Null)
    /\ UNCHANGED <<dbPatients, dbHistory, dbAppointments, dbFiles, bucket, now, ghosts>>

\* ---- the system --------------------------------------------------------------
Invoke(c) ==
    \/ getPatients(c) \/ getPatientById(c) \/ createPatient(c)
    \/ updatePatient(c) \/ deletePatient(c)
    \/ getMedicalHistory(c) \/ addMedicalHistory(c)
    \/ getAppointments(c) \/ createAppointment(c)
    \/ updateAppointment(c) \/ deleteAppointment(c)
    \/ getPatientFiles(c) \/ uploadPatientFile(c)
    \/ deletePatientFile(c) \/ getFileUrl(c)

Resume(c) ==
    \/ updatePatient_update(c) \/ updateAppointment_update(c)
    \/ addMedicalHistory_rpc(c)
    \/ uploadPatientFile_upload(c) \/ uploadPatientFile_insert(c)
    \/ deletePatientFile_remove(c) \/ deletePatientFile_delete(c)

Next ==
    \/ \E c \in Clients : Invoke(c)
    \/ \E c \in Clients : Resume(c)
    \/ \E c \in Clients : Return(c)
    \/ Tick

Spec == Init /\ [][Next]_vars

\* ---- the composite operations on an existing patient with one stored file ----
InitComposite ==
    /\ patients = Insert(<<>>, 1, [treatments |-> 0, status |-> "Activo", updated_at |-> 0])
    /\ nPatients = 1
    /\ history = {}
    /\ nHistory = 0
    /\ appointments = <<>>
    /\ nAppointments = 0
    /\ files = Insert(<<>>, 1, [patient_id |-> 1, storage_path |-> <<1, 0, "a">>])
    /\ nFiles = 1
    /\ bucket = {<<1, 0, "a">>}
    /\ now \in 0..MaxClock
    /\ op = [c \in Workers |-> Idle]
    /\ started = 0
    /\ derived = {1}
    /\ incFailed = {}
    /\ uploaded = {<<1, 0, "a">>}

InvokeComposite(c) ==
    \/ addMedicalHistory(c) \/ uploadPatientFile(c) \/ deletePatientFile(c)
    \/ getPatientById(c) \/ getMedicalHistory(c) \/ getPatientFiles(c)

ResumeComposite(c) ==
    \/ addMedicalHistory_rpc(c)
    \/ uploadPatientFile_upload(c) \/ uploadPatientFile_insert(c)
    \/ deletePatientFile_remove(c) \/ deletePatientFile_delete(c)

NextComposite ==
    \/ \E c \in Workers : InvokeComposite(c)
    \/ \E c \in Workers : ResumeComposite(c)
    \/ \E c \in Workers : Return(c)
    \/ Tick

SpecComposite == InitComposite /\ [][NextComposite]_vars

\* ---- properties ------------------------------------------------------------
Done(c, fn) == op[c].fn = fn /\ op[c].pc = "done"
Failed(c) == {i \in 1..Len(op[c].calls) : ~op[c].calls[i].ok}
Names(c) == [i \in 1..Len(op[c].calls) |-> op[c].calls[i].call]
\* client c invokes fn and its first remote call is answered
Invokes(c, fn) == op[c].pc = "idle" /\ op'[c].pc # "idle" /\ op'[c].fn = fn
\* client c takes the step in which the call awaited at pc is answered
Takes(c, fn, pc) ==
    /\ op[c].fn = fn /\ op[c].pc = pc
    /\ op'[c].fn = fn /\ op'[c].pc # pc
ReturnsBool(c, b) == op'[c].ret.kind = "bool" /\ op'[c].ret.val = b
Last(c) == op'[c].calls[Len(op'[c].calls)]

\* C1: deletePatientFile returns false only if its initial fetch or its final
\* metadata deletion failed; a failed storage removal leaves the bucket as it
\* was, and when the metadata deletion then succeeds the row is gone and the
\* call returns true.
C1_Step ==
    \A c \in Workers :
        /\ Invokes(c, "deletePatientFile")
             => /\ ReturnsBool(c, FALSE) => ~Last(c).ok
                /\ op'[c].pc = "done" => ReturnsBool(c, FALSE)
        /\ Takes(c, "deletePatientFile", "remove")
             => /\ op'[c].pc = "delete"
                /\ ~Last(c).ok => bucket' = bucket
        /\ Takes(c, "deletePatientFile", "delete")
             => /\ op'[c].pc = "done"
                /\ ReturnsBool(c, FALSE) <=> ~Last(c).ok
                /\ ReturnsBool(c, TRUE) <=> Last(c).ok
                /\ Last(c).ok => op[c].id \notin DOMAIN files'
                /\ bucket' = bucket
C1_DeleteFileResult == [][C1_Step]_vars

C1_Witness ==
    \E c \in Workers :
        /\ Done(c, "deletePatientFile")
        /\ Failed(c) = {2}
        /\ op[c].ret.kind = "bool" /\ op[c].ret.val
        /\ op[c].id \notin DOMAIN files
        /\ op[c].path \in bucket

\* C2: a failed storage upload ends uploadPatientFile with null, without an
\* insert and without a new blob; every metadata row names a key whose upload
\* succeeded.
C2_Step ==
    \A c \in Workers :
        (Takes(c, "uploadPatientFile", "upload") /\ ~Last(c).ok)
            => /\ op'[c].pc = "done"
               /\ op'[c].ret.kind = "null"
               /\ files' = files /\ nFiles' = nFiles
               /\ bucket' = bucket
C2_Rows ==
    /\ \A f \in DOMAIN files : files[f].storage_path \in uploaded
    /\ \A c \in Workers :
         (op[c].fn = "uploadPatientFile" /\ 1 \in Failed(c))
            => Names(c) = <<"storage.upload">> /\ op[c].ret.kind = "null"
C2_UploadFailure == []C2_Rows /\ [][C2_Step]_vars

C2_Witness ==
    \E c \in Workers :
        /\ Done(c, "uploadPatientFile")
        /\ Failed(c) = {1}
        /\ op[c].path \notin bucket
        /\ op[c].path \notin Paths

\* C3: when the insert of addMedicalHistory succeeds and the increment fails,
\* the inserted row is returned and stays in medical_history, and nothing but
\* the insert and the increment was issued; when the insert fails, null is
\* returned and the increment is never issued.
C3_AddHistoryResult ==
    \A c \in Workers :
        op[c].fn = "addMedicalHistory" =>
            /\ (op[c].pc = "done" /\ Failed(c) = {2})
                 => /\ op[c].ret.kind = "row"
                    /\ op[c].ret.row \in history
                    /\ Names(c) = <<"medical_history.insert",
                                    "rpc.increment_patient_treatments">>
            /\ 1 \in Failed(c)
                 => /\ op[c].pc = "done"
                    /\ op[c].ret.kind = "null"
                    /\ Names(c) = <<"medical_history.insert">>
            /\ op[c].pc = "rpc" => Failed(c) = {}

C3_Witness ==
    \E c \in Workers :
        /\ Done(c, "addMedicalHistory")
        /\ Failed(c) = {2}
        /\ op[c].ret.kind = "row"
        /\ op[c].ret.row \in history

\* C4 as stated: every operation issues exactly one remote call per
\* invocation, except deletePatientFile, which issues exactly two.
C4_OneCallEach ==
    \A c \in Workers :
        op[c].pc = "done"
            => Len(op[c].calls) = IF op[c].fn = "deletePatientFile" THEN 2 ELSE 1

\* C4 amended: every operation issues exactly one remote call per invocation,
\* except addMedicalHistory and uploadPatientFile, which issue a second one
\* when their first call succeeded, and deletePatientFile, which issues three
\* when its initial fetch succeeded and one when it failed.
CallsIssued(c) ==
    IF op[c].fn \in {"addMedicalHistory", "uploadPatientFile"}
    THEN (IF 1 \in Failed(c) THEN 1 ELSE 2)
    ELSE IF op[c].fn = "deletePatientFile"
    THEN (IF 1 \in Failed(c) THEN 1 ELSE 3)
    ELSE 1
C4_CallCounts ==
    \A c \in Workers : op[c].pc = "done" => Len(op[c].calls) = CallsIssued(c)

C4_Witness ==
    \E c \in Workers :
        /\ Done(c, "deletePatientFile")
        /\ Names(c) = <<"patient_files.select", "storage.remove", "patient_files.delete">>

\* C5: whenever a remote call of an operation returned an error, an error was
\* logged before the operation returned.
C5_EveryErrorLogged ==
    \A c \in Workers :
        op[c].pc = "done" => \A i \in Failed(c) : op[c].calls[i].logged

\* C6: while no addMedicalHistory is between its insert and its increment, a
\* patient created with treatments = 0, never written through updatePatient
\* and without a failed increment has treatments equal to the number of its
\* medical_history rows.
BetweenInsertAndIncrement ==
    \E c \in Workers : op[c].fn = "addMedicalHistory" /\ op[c].pc = "rpc"
C6_TreatmentsCount ==
    ~BetweenInsertAndIncrement =>
        \A p \in (DOMAIN patients \cap derived) \ incFailed :
            patients[p].treatments = Cardinality(HistoryOf(p))

\* the call that inserted the first row is the last to finish: the two calls
\* for the same patient overlapped
C6_Witness ==
    \E p \in (DOMAIN patients \cap derived) \ incFailed :
        /\ \E c \in Clients :
              /\ Done(c, "addMedicalHistory") /\ op[c].id = p
              /\ op[c].ret.kind = "row" /\ op[c].ret.row.id = 1
        /\ Cardinality(HistoryOf(p)) = 2
        /\ patients[p].treatments = 2

\* C7 as stated: a successful update writes the given fields and leaves
\* updated_at strictly greater than it was, equal to the call-site clock value
\* whatever updated_at the caller supplied; get-by-id returns the stored row.
Table(fn) == IF fn = "updatePatient" THEN patients ELSE appointments
Stored(c) == IF op[c].fn = "updatePatient" THEN patients'[op[c].id]
             ELSE appointments'[op[c].id]
Updated(c) ==
    /\ op[c].fn \in {"updatePatient", "updateAppointment"}
    /\ op[c].pc = "update"
    /\ op'[c].pc = "done"
    /\ op'[c].ret.kind = "row"
FieldsWritten(c) ==
    /\ op'[c].ret.row = Stored(c)
    /\ op[c].upd.status # NoStr => Stored(c).status = op[c].upd.status
    /\ (op[c].fn = "updatePatient" /\ op[c].upd.treatments # NoInt)
          => Stored(c).treatments = op[c].upd.treatments
    /\ Stored(c).updated_at = op[c].stamp
GetReturnsStored(c) ==
    (Invokes(c, "getPatientById") /\ op'[c].ret.kind = "row")
        => op'[c].ret.row = patients[op'[c].id]
C7_StampStrictlyGreater ==
    [][\A c \in Workers :
          /\ Updated(c) => /\ FieldsWritten(c)
                           /\ Stored(c).updated_at > Table(op[c].fn)[op[c].id].updated_at
          /\ GetReturnsStored(c)]_vars

\* C7 amended: a successful update writes the given fields and sets updated_at
\* to the clock value read when the update was invoked, whatever updated_at
\* the caller supplied (that value need not exceed the previous updated_at);
\* get-by-id returns the stored row.
C7_StampIsCallSiteClock ==
    [][\A c \in Workers :
          /\ Updated(c) => FieldsWritten(c)
          /\ GetReturnsStored(c)]_vars

C7_Witness ==
    \E c \in Workers :
        /\ Done(c, "updatePatient")
        /\ op[c].ret.kind = "row"
        /\ op[c].upd.updated_at # NoInt
        /\ op[c].upd.updated_at # op[c].stamp
        /\ op[c].id \in DOMAIN patients
        /\ patients[op[c].id] = op[c].ret.row
        /\ patients[op[c].id].updated_at = op[c].stamp

\* C8: no step of the system changes both halves of a composite write: the
\* history row and the counter, the blob and its metadata row are written by
\* separate steps, and the state between them is there to be read.
C8_NotAtomic ==
    [][/\ ~(history' # history /\ patients' # patients)
       /\ ~(bucket' # bucket /\ files' # files)
       /\ \A c \in Workers :
            /\ (Invokes(c, "addMedicalHistory") /\ Last(c).ok)
                  => op'[c].pc = "rpc"
            /\ (Takes(c, "uploadPatientFile", "upload") /\ Last(c).ok)
                  => op'[c].pc = "insert"
            /\ Takes(c, "deletePatientFile", "remove") => op'[c].pc = "delete"]_vars

\* all three inconsistent views at once, every remote call so far successful
C8_Witness ==
    \E a, u, d \in Workers :
        /\ started = 3
        /\ \A c \in Workers : Failed(c) = {}
        /\ op[a].fn = "addMedicalHistory" /\ op[a].pc = "rpc"
        /\ op[a].ret.row \in history
        /\ op[a].id \in DOMAIN patients
        /\ patients[op[a].id].treatments = Cardinality(HistoryOf(op[a].id)) - 1
        /\ op[u].fn = "uploadPatientFile" /\ op[u].pc = "insert"
        /\ op[u].path \in bucket /\ op[u].path \notin Paths
        /\ op[d].fn = "deletePatientFile" /\ op[d].pc = "delete"
        /\ op[d].id \in DOMAIN files
        /\ files[op[d].id].storage_path \notin bucket

\* C9: deletePatientFile issues fetch, storage removal, metadata deletion in
\* that order, each after the previous one completed, and nothing after a
\* failed fetch; a successful storage removal leaves the key out of the bucket
\* and the metadata row in place, and the metadata deletion does not touch
\* the bucket.
DeleteOrder == <<"patient_files.select", "storage.remove", "patient_files.delete">>
C9_Order ==
    \A c \in Workers :
        op[c].fn = "deletePatientFile" =>
            /\ Names(c) = SubSeq(DeleteOrder, 1, Len(op[c].calls))
            /\ 1 \in Failed(c) => Len(op[c].calls) = 1 /\ op[c].pc = "done"
            /\ op[c].pc = "remove" <=> (Len(op[c].calls) = 1 /\ 1 \notin Failed(c))
            /\ op[c].pc = "delete" <=> Len(op[c].calls) = 2
C9_Step ==
    \A c \in Workers :
        /\ (Takes(c, "deletePatientFile", "remove") /\ Last(c).ok)
              => /\ op[c].path \notin bucket'
                 /\ files' = files
        /\ Takes(c, "deletePatientFile", "delete") => bucket' = bucket
C9_StorageFirst == []C9_Order /\ [][C9_Step]_vars

C9_Witness ==
    \E c \in Workers :
        /\ op[c].fn = "deletePatientFile" /\ op[c].pc = "delete"
        /\ 2 \notin Failed(c)
        /\ op[c].id \in DOMAIN files
        /\ files[op[c].id].storage_path = op[c].path
        /\ op[c].path \notin bucket

\* C10: deletePatient and deleteAppointment issue one row deletion on their own
\* table, which loses at most that row, and leave the bucket, the file rows
\* and the other tables as they were.
C10_Step ==
    \A c \in Workers :
        /\ Invokes(c, "deletePatient")
              => /\ op'[c].pc = "done"
                 /\ Len(op'[c].calls) = 1 /\ Last(c).call = "patients.delete"
                 /\ DOMAIN patients \ {op'[c].id} \subseteq DOMAIN patients'
                 /\ UNCHANGED <<bucket, files, appointments, history>>
        /\ Invokes(c, "deleteAppointment")
              => /\ op'[c].pc = "done"
                 /\ Len(op'[c].calls) = 1 /\ Last(c).call = "appointments.delete"
                 /\ DOMAIN appointments \ {op'[c].id} \subseteq DOMAIN appointments'
                 /\ UNCHANGED <<bucket, files, patients, history>>
C10_DeleteLeavesBucket == [][C10_Step]_vars

C10_Witness ==
    \E c \in Workers :
        /\ Done(c, "deletePatient")
        /\ op[c].ret.kind = "bool" /\ op[c].ret.val
        /\ op[c].id \notin DOMAIN patients
        /\ \E f \in FilesOf(op[c].id) : files[f].storage_path \in bucket

====
